---- MODULE Spec2Model ----
(***************************************************************************)
(* ssh-push (src/ssh_push.py): a command line front that loads a flat      *)
(* configuration record from .ssh_push_config.json and dispatches to one   *)
(* of: interactive setup / edit of the record, show, probe, remote         *)
(* listing, push of all files, push of the named files, help.              *)
(*                                                                         *)
(* Strings are sequences of chunks (<<>> is the empty string, " " is a     *)
(* whitespace chunk, a digit chunk is one of "0".."9"); a configuration    *)
(* record is a function from a subset of Keys to values; the collaborator  *)
(* processes (ssh, scp), the file system and the terminal are the          *)
(* environment and are drawn with \E where the code consults them.         *)
(***************************************************************************)
EXTENDS Integers, Sequences, FiniteSets, TLC

VARIABLES
    entry,          \* the function the run enters: main, or a function called directly
    args,           \* parsed command line: [flags, files]
    cfgfile,        \* .ssh_push_config.json: [state, data]
    file0,          \* the configuration file as it was when the run started
    config,         \* main's `config` / the `config` argument of a direct call
    pc,             \* position in the program
    branch,         \* main: the branch of the command dispatch taken ("none" before)
    cmds,           \* child processes started so far, in order, with their outcome
    files,          \* push_files: the `files` argument
    verbose,        \* push_files: the `verbose` argument
    seen,           \* push_files: one entry per loop iteration done
    success_count,  \* push_files: success_count
    tally,          \* push_files: the final "Push complete: n/m" line, <<n, m>>
    result,         \* value returned by the bool function last run ("none" before)
    existing,       \* setup/edit: existing_config
    newcfg,         \* setup/edit: the local `config` being built
    answers,        \* setup/edit: the stripped answers given to the prompts of the flow
    probed,         \* setup/edit: value of test_ssh_connection(config) ("none" before)
    saved,          \* records handed to save_config so far, with the outcome
    returned,       \* setup/edit: [has, val], the record the flow returned
    exit,           \* [done, code]: the process exit status
    ran,            \* functions of the program entered so far
    failures        \* failures that happened so far

vars == <<entry, args, cfgfile, file0, config, pc, branch, cmds, files, verbose,
          seen, success_count, tally, result, existing, newcfg, answers, probed, saved,
          returned,
          exit, ran, failures>>

-----------------------------------------------------------------------------
(* Bounds *)
MaxFiles == 2    \* longest list handed to push_files in a direct call
MaxArgs == 2     \* most command line arguments (flags plus file names)

(* Program constants *)
DefaultPort == 22

Keys == {"hostname", "port", "remote_dir", "auth_method", "key_path"}
Empty == <<>>
Truthy(c) == DOMAIN c # {}
Has(c, k) == k \in DOMAIN c
Get(c, k, d) == IF k \in DOMAIN c THEN c[k] ELSE d
Put(c, k, v) == [x \in (DOMAIN c) \cup {k} |-> IF x = k THEN v ELSE c[x]]

DefaultRemoteDir == <<"~/fpga_work">>
DefaultKeyPath == <<"~/.ssh/id_rsa">>
Marker == "SSH connection test successful"
B(b) == IF b THEN "true" ELSE "false"

-----------------------------------------------------------------------------
(* Strings *)
Digits == {"0", "1", "2", "3", "4", "5", "6", "7", "8", "9"}
DigitVal(d) == CASE d = "0" -> 0 [] d = "1" -> 1 [] d = "2" -> 2 [] d = "3" -> 3
                 [] d = "4" -> 4 [] d = "5" -> 5 [] d = "6" -> 6 [] d = "7" -> 7
                 [] d = "8" -> 8 [] d = "9" -> 9

RECURSIVE LStrip(_)
LStrip(s) == IF s # <<>> /\ Head(s) = " " THEN LStrip(Tail(s)) ELSE s
RECURSIVE RStrip(_)
RStrip(s) == IF s # <<>> /\ s[Len(s)] = " " THEN RStrip(SubSeq(s, 1, Len(s) - 1)) ELSE s
Strip(s) == RStrip(LStrip(s))

(* str.isdigit() accepts every Unicode digit, int() only the decimal ones. *)
UnicodeDigits == Digits \cup {"SUPERSCRIPT TWO"}
IsDigit(s) == s # <<>> /\ \A i \in 1..Len(s) : s[i] \in UnicodeDigits
IntRaises(s) == \E i \in 1..Len(s) : s[i] \notin Digits
RECURSIVE ToInt(_)
ToInt(s) == IF s = <<>> THEN 0
            ELSE 10 * ToInt(SubSeq(s, 1, Len(s) - 1)) + DigitVal(s[Len(s)])
Contains(out, m) == \E i \in 1..Len(out) : out[i] = m

-----------------------------------------------------------------------------
(* ConfigStore *)
Absent == [state |-> "absent", data |-> {}]
Malformed == [state |-> "malformed", data |-> {}]
JsonDump(c) == {<<k, c[k]>> : k \in DOMAIN c}
JsonLoad(t) == [k \in {p[1] : p \in t} |-> (CHOOSE p \in t : p[1] = k)[2]]
Stored(c) == [state |-> "ok", data |-> JsonDump(c)]

load_config(f) == IF f.state = "ok" THEN JsonLoad(f.data) ELSE Empty

SaveOutcomes == {"ok", "open_failed", "write_failed"}
save_config(f, c, o) ==
    CASE o = "ok" -> Stored(c)
      [] o = "open_failed" -> f
      [] o = "write_failed" -> Malformed

-----------------------------------------------------------------------------
(* Inputs: records, command lines, answers, outcomes of child processes *)
Drop(c, k) == [x \in (DOMAIN c) \ {k} |-> c[x]]
KeyRecord == [hostname |-> <<"pi@h1">>, port |-> 22, remote_dir |-> <<"~/work">>,
              auth_method |-> "key", key_path |-> <<"~/.ssh/id_rsa">>]
PasswordRecord == Drop(Put(KeyRecord, "auth_method", "password"), "key_path")
Records == {Empty, KeyRecord, PasswordRecord,
            Put(KeyRecord, "auth_method", "password"),
            Put(KeyRecord, "key_path", <<>>),
            Drop(KeyRecord, "hostname"), Drop(PasswordRecord, "remote_dir"),
            Drop(PasswordRecord, "auth_method"), Drop(PasswordRecord, "port")}
InitialFiles == {Absent, Malformed} \cup {Stored(r) : r \in Records}

Paths == {"a.txt", "b.txt"}
RECURSIVE SeqsUpTo(_, _)
SeqsUpTo(S, n) == IF n = 0 THEN {<<>>}
                  ELSE LET shorter == SeqsUpTo(S, n - 1)
                       IN shorter \cup {Append(q, x) : q \in shorter, x \in S}
FlagNames == {"setup", "edit", "config", "test", "list", "all", "verbose"}
CommandLines == {a \in [flags : SUBSET FlagNames, files : SeqsUpTo(Paths, MaxArgs)] :
                    Cardinality(a.flags) + Len(a.files) <= MaxArgs}
NoArgs == [flags |-> {}, files |-> <<>>]

Ok == [raised |-> FALSE, rc |-> 0, stdout |-> <<>>]
Failed == [raised |-> FALSE, rc |-> 1, stdout |-> <<>>]
Raised == [raised |-> TRUE, rc |-> 0, stdout |-> <<>>]
ProcOutcomes == {Ok, Failed, Raised}
ProbeOutcomes == {[Ok EXCEPT !.stdout = <<Marker>>], Ok, Failed,
                  [Failed EXCEPT !.stdout = <<Marker>>], Raised}

(* What the user types at a prompt, before strip() *)
HostAnswers == {<<>>, <<" ">>, <<" ", "pi@h2">>}
PortAnswers == {<<>>, <<" ", "8", "0">>, <<"x">>, <<"SUPERSCRIPT TWO">>}
DirAnswers == {<<" ">>, <<"~/d2">>}
MenuAnswers == {<<>>, <<"1">>, <<" ", "2">>, <<"3">>, <<"x">>}
KeyAnswers == {<<>>, <<"~/.ssh/k2", " ">>}

(* os.listdir(cwd): entries with name, name.startswith('.') and os.path.isfile *)
Entry(n, d, f) == [name |-> n, dot |-> d, isfile |-> f]
DirListings == {<<>>,
                <<Entry(".ssh_push_config.json", TRUE, TRUE), Entry("build", FALSE, FALSE)>>,
                <<Entry("a.txt", FALSE, TRUE)>>,
                <<Entry("b.txt", FALSE, TRUE), Entry(".git", TRUE, FALSE),
                  Entry("a.txt", FALSE, TRUE)>>}

-----------------------------------------------------------------------------
(* Child process invocations *)
KeyArg(c, onDisk) ==
    IF Get(c, "auth_method", "") = "key" /\ Get(c, "key_path", <<>>) # <<>> /\ onDisk
    THEN c["key_path"] ELSE <<>>
KeyOnDisk(c) == IF Get(c, "auth_method", "") = "key" /\ Get(c, "key_path", <<>>) # <<>>
                THEN BOOLEAN ELSE {FALSE}
Cmd(kind, c, k, arg, v, o) ==
    [kind |-> kind, host |-> c["hostname"], port |-> Get(c, "port", DefaultPort),
     key |-> KeyArg(c, k), arg |-> arg, v |-> v, out |-> o]

Succeeded(o) == ~o.raised /\ o.rc = 0

test_ssh_connection_NoMarker(c, o) == Has(c, "hostname") /\ ~o.raised /\ o.rc = 0
test_ssh_connection(c, o) ==
    Has(c, "hostname") /\ ~o.raised /\ o.rc = 0 /\ Contains(o.stdout, Marker)
ProbeCmds(c, o, k) ==
    IF Has(c, "hostname") THEN <<Cmd("probe", c, k, <<>>, FALSE, o)>> ELSE <<>>

ensure_remote_directory_IgnoresStatus(c, o) == TRUE
ensure_remote_directory(c, o) == Has(c, "hostname") /\ Succeeded(o)
EnsureCmds(c, dir, o, k) ==
    IF Has(c, "hostname") THEN <<Cmd("mkdir", c, k, dir, FALSE, o)>> ELSE <<>>

list_remote_files(c, o) ==
    Truthy(c) /\ Has(c, "hostname") /\ Has(c, "remote_dir") /\ Succeeded(o)
ListCmds(c, o, k) ==
    IF Has(c, "hostname") /\ Has(c, "remote_dir")
    THEN <<Cmd("ls", c, k, c["remote_dir"], FALSE, o)>> ELSE <<>>

RECURSIVE get_all_non_hidden_files(_)
get_all_non_hidden_files(listing) ==
    IF listing = <<>> THEN <<>>
    ELSE LET e == Head(listing)
             rest == get_all_non_hidden_files(Tail(listing))
         IN IF ~e.dot /\ e.isfile THEN <<e.name>> \o rest ELSE rest

Exit(code) == [done |-> TRUE, code |-> code]
NoReturn == [has |-> FALSE, val |-> Empty]
Return(c) == [has |-> TRUE, val |-> c]

-----------------------------------------------------------------------------
Init ==
    /\ entry \in {"main", "push_files", "test_ssh_connection", "edit_ssh_config"}
    /\ args \in IF entry = "main" THEN CommandLines ELSE {NoArgs}
    /\ cfgfile \in IF entry \in {"main", "edit_ssh_config"} THEN InitialFiles ELSE {Absent}
    /\ file0 = cfgfile
    /\ config \in IF entry \in {"push_files", "test_ssh_connection"} THEN Records ELSE {Empty}
    /\ files \in IF entry = "push_files" THEN SeqsUpTo(Paths, MaxFiles) ELSE {<<>>}
    /\ verbose \in IF entry = "push_files" THEN BOOLEAN ELSE {FALSE}
    /\ existing \in IF entry = "edit_ssh_config" THEN Records ELSE {Empty}
    /\ pc = entry
    /\ branch = "none"
    /\ cmds = <<>>
    /\ seen = <<>>
    /\ success_count = 0
    /\ tally = <<>>
    /\ result = "none"
    /\ newcfg = Empty
    /\ answers = <<>>
    /\ probed = "none"
    /\ saved = <<>>
    /\ returned = NoReturn
    /\ exit = [done |-> FALSE, code |-> 0]
    /\ ran = {}
    /\ failures = {}

pushVars == <<files, verbose, seen, success_count, tally>>
flowVars == <<existing, newcfg, answers, probed, saved, returned>>
envVars == <<entry, args, file0>>

-----------------------------------------------------------------------------
(* push_files *)
PushAccepts_ConfigOnly(c, fs) == Truthy(c)
PushAccepts(c, fs) == Truthy(c) /\ fs # <<>>
PushResult_AnySuccess(n, total) == n > 0
PushResult(n, total) == n = total
TallyLine(n, fs) == <<n, Len(fs)>>
NextIndex(sn) == Len(sn) + 1
LoopContinues_StopsOnFailure(sn, fs) ==
    Len(sn) < Len(fs) /\ \A i \in 1..Len(sn) : sn[i].exists /\ Succeeded(sn[i].out)
LoopContinues(sn, fs) == Len(sn) < Len(fs)

PushEnter ==
    /\ pc = "push_files"
    /\ ran' = ran \cup {"push_files"}
    /\ IF ~PushAccepts(config, files)
       THEN /\ result' = "false"
            /\ failures' = failures \cup {IF ~Truthy(config) THEN "config_missing" ELSE "no_files"}
            /\ pc' = "return"
       ELSE IF ~Has(config, "hostname") \/ ~Has(config, "remote_dir")
       THEN /\ result' = "raised"
            /\ failures' = failures \cup {"crash"}
            /\ pc' = "raised"
       ELSE /\ pc' = "ensure"
            /\ UNCHANGED <<result, failures>>
    /\ UNCHANGED <<envVars, cfgfile, config, branch, cmds, pushVars, flowVars, exit>>

PushEnsure ==
    /\ pc = "ensure"
    /\ \E o \in ProcOutcomes, k \in KeyOnDisk(config) :
        /\ cmds' = cmds \o EnsureCmds(config, config["remote_dir"], o, k)
        /\ IF ensure_remote_directory(config, o)
           THEN /\ success_count' = 0
                /\ pc' = "loop"
                /\ UNCHANGED <<result, failures>>
           ELSE /\ result' = "false"
                /\ failures' = failures \cup {"ensure"}
                /\ pc' = "return"
                /\ UNCHANGED success_count
    /\ UNCHANGED <<envVars, cfgfile, config, branch, files, verbose, seen, tally,
                   flowVars, exit, ran>>

PushFile ==
    /\ pc = "loop"
    /\ LoopContinues(seen, files)
    /\ LET path == files[NextIndex(seen)] IN
       \E present \in BOOLEAN :
          IF ~present
          THEN /\ seen' = Append(seen, [path |-> path, exists |-> FALSE, out |-> Ok])
               /\ failures' = failures \cup {"skip"}
               /\ UNCHANGED <<cmds, success_count>>
          ELSE \E o \in ProcOutcomes, k \in KeyOnDisk(config) :
               /\ seen' = Append(seen, [path |-> path, exists |-> TRUE, out |-> o])
               /\ cmds' = Append(cmds, Cmd("scp", config, k, <<path>> \o config["remote_dir"], verbose, o))
               /\ success_count' = IF Succeeded(o) THEN success_count + 1 ELSE success_count
               /\ failures' = IF Succeeded(o) THEN failures ELSE failures \cup {"copy"}
    /\ UNCHANGED <<envVars, cfgfile, config, pc, branch, files, verbose, tally, result,
                   flowVars, exit, ran>>

PushTally ==
    /\ pc = "loop"
    /\ ~LoopContinues(seen, files)
    /\ tally' = TallyLine(success_count, files)
    /\ result' = B(PushResult(success_count, Len(files)))
    /\ pc' = "return"
    /\ UNCHANGED <<envVars, cfgfile, config, branch, cmds, files, verbose, seen,
                   success_count, flowVars, exit, ran, failures>>

-----------------------------------------------------------------------------
(* main: load, dispatch, exit status *)
Branches_ConfigFirst == <<"setup", "config", "edit", "test", "list", "all", "files", "help">>
Branches == <<"setup", "edit", "config", "test", "list", "all", "files", "help">>
Given(a, b) == CASE b = "files" -> a.files # <<>>
                 [] b = "help" -> TRUE
                 [] OTHER -> b \in a.flags
Dispatch(a) == Branches[CHOOSE i \in 1..Len(Branches) :
                   /\ Given(a, Branches[i])
                   /\ \A j \in 1..(i - 1) : ~Given(a, Branches[j])]
ExitCode(ok) == IF ok THEN 0 ELSE 1

MainLoad ==
    /\ pc = "main"
    /\ config' = load_config(cfgfile)
    /\ failures' = IF cfgfile.state = "malformed" THEN failures \cup {"load"} ELSE failures
    /\ ran' = ran \cup {"main"}
    /\ pc' = "dispatch"
    /\ UNCHANGED <<envVars, cfgfile, branch, cmds, pushVars, result, flowVars, exit>>

MainDispatch ==
    /\ pc = "dispatch"
    /\ branch' = Dispatch(args)
    /\ pc' = branch'
    /\ UNCHANGED <<envVars, cfgfile, config, cmds, pushVars, result, flowVars, exit, ran,
                   failures>>

MainSetup ==
    /\ pc = "setup"
    /\ pc' = "setup_ssh_config"
    /\ UNCHANGED <<envVars, cfgfile, config, branch, cmds, pushVars, result, flowVars,
                   exit, ran, failures>>

MainEdit ==
    /\ pc = "edit"
    /\ config' = load_config(cfgfile)
    /\ IF ~Truthy(config')
       THEN /\ exit' = Exit(1)
            /\ failures' = failures \cup {"config_missing"}
            /\ pc' = "done"
            /\ UNCHANGED existing
       ELSE /\ existing' = config'
            /\ pc' = "edit_ssh_config"
            /\ UNCHANGED <<exit, failures>>
    /\ UNCHANGED <<envVars, cfgfile, branch, cmds, pushVars, result, newcfg, answers,
                   probed, saved, returned, ran>>

MainConfig ==
    /\ pc = "config"
    /\ ran' = ran \cup {"show_config"}
    /\ exit' = Exit(0)
    /\ pc' = "done"
    /\ UNCHANGED <<envVars, cfgfile, config, branch, cmds, pushVars, result, flowVars,
                   failures>>

MainTest ==
    /\ pc = "test"
    /\ IF ~Truthy(config)
       THEN /\ exit' = Exit(1)
            /\ failures' = failures \cup {"config_missing"}
            /\ pc' = "done"
       ELSE /\ pc' = "test_ssh_connection"
            /\ UNCHANGED <<exit, failures>>
    /\ UNCHANGED <<envVars, cfgfile, config, branch, cmds, pushVars, result, flowVars, ran>>

TestSshConnection ==
    /\ pc = "test_ssh_connection"
    /\ ran' = ran \cup {"test_ssh_connection"}
    /\ \E o \in ProbeOutcomes, k \in KeyOnDisk(config) :
        /\ cmds' = cmds \o ProbeCmds(config, o, k)
        /\ result' = B(test_ssh_connection(config, o))
    /\ failures' = IF result' = "true" THEN failures ELSE failures \cup {"probe"}
    /\ pc' = "return"
    /\ UNCHANGED <<envVars, cfgfile, config, branch, pushVars, flowVars, exit>>

MainList ==
    /\ pc = "list"
    /\ ran' = ran \cup {"list_remote_files"}
    /\ IF ~Truthy(config)
       THEN /\ result' = "false"
            /\ failures' = failures \cup {"config_missing"}
            /\ UNCHANGED cmds
       ELSE \E o \in ProcOutcomes, k \in KeyOnDisk(config) :
            /\ cmds' = cmds \o ListCmds(config, o, k)
            /\ result' = B(list_remote_files(config, o))
            /\ failures' = IF result' = "true" THEN failures ELSE failures \cup {"list"}
    /\ exit' = Exit(ExitCode(result' = "true"))
    /\ pc' = "done"
    /\ UNCHANGED <<envVars, cfgfile, config, branch, pushVars, flowVars>>

MainAll ==
    /\ pc = "all"
    /\ ran' = ran \cup {"get_all_non_hidden_files"}
    /\ \E listing \in DirListings, scanFails \in BOOLEAN :
        LET files_to_push == IF scanFails THEN <<>> ELSE get_all_non_hidden_files(listing)
        IN IF files_to_push # <<>>
           THEN /\ files' = files_to_push
                /\ verbose' = ("verbose" \in args.flags)
                /\ pc' = "push_files"
                /\ UNCHANGED <<exit, failures>>
           ELSE /\ exit' = Exit(1)
                /\ failures' = failures \cup {"no_files"}
                /\ pc' = "done"
                /\ UNCHANGED <<files, verbose>>
    /\ UNCHANGED <<envVars, cfgfile, config, branch, cmds, seen, success_count, tally,
                   result, flowVars>>

MainFiles ==
    /\ pc = "files"
    /\ files' = args.files
    /\ verbose' = ("verbose" \in args.flags)
    /\ pc' = "push_files"
    /\ UNCHANGED <<envVars, cfgfile, config, branch, cmds, seen, success_count, tally,
                   result, flowVars, exit, ran, failures>>

MainHelp ==
    /\ pc = "help"
    /\ exit' = Exit(0)
    /\ pc' = "done"
    /\ UNCHANGED <<envVars, cfgfile, config, branch, cmds, pushVars, result, flowVars,
                   ran, failures>>

MainReturn ==
    /\ pc = "return"
    /\ entry = "main"
    /\ exit' = Exit(ExitCode(IF branch \in {"setup", "edit"} THEN Truthy(returned.val)
                                                             ELSE result = "true"))
    /\ pc' = "done"
    /\ UNCHANGED <<envVars, cfgfile, config, branch, cmds, pushVars, result, flowVars,
                   ran, failures>>

MainUncaught ==
    /\ pc = "raised"
    /\ entry = "main"
    /\ exit' = Exit(1)
    /\ pc' = "done"
    /\ UNCHANGED <<envVars, cfgfile, config, branch, cmds, pushVars, result, flowVars,
                   ran, failures>>

-----------------------------------------------------------------------------
(* setup_ssh_config: the create flow *)
Persists_Always(p) == TRUE
Persists(p) == p = "true"
Raise == /\ pc' = "raised"
         /\ failures' = failures \cup {"crash"}

SetupEnter ==
    /\ pc = "setup_ssh_config"
    /\ ran' = ran \cup {"setup_ssh_config"}
    /\ existing' = load_config(cfgfile)
    /\ pc' = IF Truthy(existing') THEN "s_choice" ELSE "c_host"
    /\ UNCHANGED <<envVars, cfgfile, config, branch, cmds, pushVars, result, newcfg,
                   answers, probed, saved, returned, exit, failures>>

SetupChoice ==
    /\ pc = "s_choice"
    /\ \E raw \in MenuAnswers :
        LET choice == Strip(raw) IN
        CASE choice = <<"1">> -> /\ pc' = "edit_ssh_config"
                                 /\ UNCHANGED <<returned, failures>>
          [] choice = <<"2">> -> /\ pc' = "c_host"
                                 /\ UNCHANGED <<returned, failures>>
          [] choice = <<"3">> -> /\ returned' = Return(Empty)
                                 /\ failures' = failures \cup {"cancel"}
                                 /\ pc' = "return"
          [] OTHER -> UNCHANGED <<pc, returned, failures>>
    /\ UNCHANGED <<envVars, cfgfile, config, branch, cmds, pushVars, result, existing,
                   newcfg, answers, probed, saved, exit, ran>>

CreateHostname ==
    /\ pc = "c_host"
    /\ \E raw \in HostAnswers :
        LET hostname == Strip(raw) IN
        IF hostname # <<>>
        THEN /\ newcfg' = Put(Empty, "hostname", hostname)
             /\ answers' = <<hostname>>
             /\ pc' = "c_port"
        ELSE UNCHANGED <<newcfg, answers, pc>>
    /\ UNCHANGED <<envVars, cfgfile, config, branch, cmds, pushVars, result, existing,
                   probed, saved, returned, exit, ran, failures>>

CreatePort ==
    /\ pc = "c_port"
    /\ \E raw \in PortAnswers :
        LET port == Strip(raw) IN
        /\ answers' = Append(answers, port)
        /\ IF IsDigit(port) /\ IntRaises(port)
           THEN Raise /\ UNCHANGED newcfg
           ELSE /\ newcfg' = Put(newcfg, "port", IF IsDigit(port) THEN ToInt(port)
                                                                  ELSE DefaultPort)
                /\ pc' = "c_dir"
                /\ UNCHANGED failures
    /\ UNCHANGED <<envVars, cfgfile, config, branch, cmds, pushVars, result, existing,
                   probed, saved, returned, exit, ran>>

CreateRemoteDir ==
    /\ pc = "c_dir"
    /\ \E raw \in DirAnswers :
        LET remote_dir == Strip(raw) IN
        /\ answers' = Append(answers, remote_dir)
        /\ newcfg' = Put(newcfg, "remote_dir",
                         IF remote_dir # <<>> THEN remote_dir ELSE DefaultRemoteDir)
    /\ pc' = "c_auth"
    /\ UNCHANGED <<envVars, cfgfile, config, branch, cmds, pushVars, result, existing,
                   probed, saved, returned, exit, ran, failures>>

CreateAuth ==
    /\ pc = "c_auth"
    /\ \E raw \in MenuAnswers :
        LET auth_choice == Strip(raw) IN
        CASE auth_choice = <<"1">> -> /\ newcfg' = Put(newcfg, "auth_method", "key")
                                      /\ answers' = Append(answers, auth_choice)
                                      /\ pc' = "c_key"
          [] auth_choice = <<"2">> -> /\ newcfg' = Put(newcfg, "auth_method", "password")
                                      /\ answers' = Append(answers, auth_choice)
                                      /\ pc' = "c_key"
          [] OTHER -> UNCHANGED <<newcfg, answers, pc>>
    /\ UNCHANGED <<envVars, cfgfile, config, branch, cmds, pushVars, result, existing,
                   probed, saved, returned, exit, ran, failures>>

CreateKeyPath ==
    /\ pc = "c_key"
    /\ IF newcfg["auth_method"] = "key"
       THEN \E raw \in KeyAnswers :
            LET key_path == Strip(raw) IN
            /\ answers' = Append(answers, key_path)
            /\ newcfg' = Put(newcfg, "key_path",
                             IF key_path # <<>> THEN key_path ELSE DefaultKeyPath)
       ELSE UNCHANGED <<newcfg, answers>>
    /\ pc' = "c_test"
    /\ UNCHANGED <<envVars, cfgfile, config, branch, cmds, pushVars, result, existing,
                   probed, saved, returned, exit, ran, failures>>

CreateTest ==
    /\ pc = "c_test"
    /\ \E o \in ProbeOutcomes, k \in KeyOnDisk(newcfg) :
        /\ cmds' = cmds \o ProbeCmds(newcfg, o, k)
        /\ probed' = B(test_ssh_connection(newcfg, o))
    /\ pc' = "c_finish"
    /\ UNCHANGED <<envVars, cfgfile, config, branch, pushVars, result, existing, newcfg,
                   answers, saved, returned, exit, ran, failures>>

CreateFinish ==
    /\ pc = "c_finish"
    /\ IF Persists(probed)
       THEN \E o \in SaveOutcomes :
            /\ cfgfile' = save_config(cfgfile, newcfg, o)
            /\ saved' = Append(saved, [rec |-> newcfg, out |-> o])
            /\ failures' = IF o = "ok" THEN failures ELSE failures \cup {"save"}
            /\ returned' = Return(newcfg)
       ELSE /\ returned' = Return(Empty)
            /\ failures' = failures \cup {"probe"}
            /\ UNCHANGED <<cfgfile, saved>>
    /\ pc' = "return"
    /\ UNCHANGED <<envVars, config, branch, cmds, pushVars, result, existing, newcfg,
                   answers, probed, exit, ran>>

-----------------------------------------------------------------------------
(* edit_ssh_config: the edit flow.  `config = existing_config.copy()` gives  *)
(* the flow its own record; were the two names bound to one object, every  *)
(* assignment to config would show in existing_config too.                 *)
EditCopies == TRUE
EditKeeps_Never(answer) == FALSE
EditKeeps(answer) == answer = <<>>
SetField(k, v) ==
    /\ newcfg' = Put(newcfg, k, v)
    /\ existing' = IF EditCopies THEN existing ELSE Put(existing, k, v)

EditEnter ==
    /\ pc = "edit_ssh_config"
    /\ ran' = ran \cup {"edit_ssh_config"}
    /\ newcfg' = existing
    /\ answers' = <<>>
    /\ pc' = "e_host"
    /\ UNCHANGED <<envVars, cfgfile, config, branch, cmds, pushVars, result, existing,
                   probed, saved, returned, exit, failures>>

EditHostname ==
    /\ pc = "e_host"
    /\ \E raw \in HostAnswers :
        LET hostname == Strip(raw) IN
        /\ answers' = Append(answers, hostname)
        /\ IF ~EditKeeps(hostname) THEN SetField("hostname", hostname)
                                   ELSE UNCHANGED <<newcfg, existing>>
    /\ pc' = "e_port"
    /\ UNCHANGED <<envVars, cfgfile, config, branch, cmds, pushVars, result, probed,
                   saved, returned, exit, ran, failures>>

EditPort ==
    /\ pc = "e_port"
    /\ \E raw \in PortAnswers :
        LET port == Strip(raw) IN
        /\ answers' = Append(answers, port)
        /\ IF IsDigit(port)
           THEN IF IntRaises(port)
                THEN Raise /\ UNCHANGED <<newcfg, existing>>
                ELSE /\ SetField("port", ToInt(port))
                     /\ pc' = "e_dir"
                     /\ UNCHANGED failures
           ELSE /\ pc' = "e_dir"
                /\ UNCHANGED <<newcfg, existing, failures>>
    /\ UNCHANGED <<envVars, cfgfile, config, branch, cmds, pushVars, result, probed,
                   saved, returned, exit, ran>>

EditRemoteDir ==
    /\ pc = "e_dir"
    /\ \E raw \in DirAnswers :
        LET remote_dir == Strip(raw) IN
        /\ answers' = Append(answers, remote_dir)
        /\ IF ~EditKeeps(remote_dir) THEN SetField("remote_dir", remote_dir)
                                     ELSE UNCHANGED <<newcfg, existing>>
    /\ pc' = "e_auth"
    /\ UNCHANGED <<envVars, cfgfile, config, branch, cmds, pushVars, result, probed,
                   saved, returned, exit, ran, failures>>

EditAuth ==
    /\ pc = "e_auth"
    /\ \E raw \in MenuAnswers :
        LET auth_choice == Strip(raw) IN
        /\ answers' = Append(answers, auth_choice)
        /\ CASE auth_choice = <<"1">> -> SetField("auth_method", "key")
             [] auth_choice = <<"2">> -> SetField("auth_method", "password")
             [] OTHER -> UNCHANGED <<newcfg, existing>>
    /\ pc' = "e_key"
    /\ UNCHANGED <<envVars, cfgfile, config, branch, cmds, pushVars, result, probed,
                   saved, returned, exit, ran, failures>>

EditKeyPath ==
    /\ pc = "e_key"
    /\ IF ~Has(newcfg, "auth_method")
       THEN Raise /\ UNCHANGED <<newcfg, existing, answers>>
       ELSE /\ IF newcfg["auth_method"] = "key"
               THEN \E raw \in KeyAnswers :
                    LET key_path == Strip(raw) IN
                    /\ answers' = Append(answers, key_path)
                    /\ IF ~EditKeeps(key_path) THEN SetField("key_path", key_path)
                                               ELSE UNCHANGED <<newcfg, existing>>
               ELSE UNCHANGED <<newcfg, existing, answers>>
            /\ pc' = "e_test"
            /\ UNCHANGED failures
    /\ UNCHANGED <<envVars, cfgfile, config, branch, cmds, pushVars, result, probed,
                   saved, returned, exit, ran>>

EditTest ==
    /\ pc = "e_test"
    /\ \E o \in ProbeOutcomes, k \in KeyOnDisk(newcfg) :
        /\ cmds' = cmds \o ProbeCmds(newcfg, o, k)
        /\ probed' = B(test_ssh_connection(newcfg, o))
    /\ pc' = "e_finish"
    /\ UNCHANGED <<envVars, cfgfile, config, branch, pushVars, result, existing, newcfg,
                   answers, saved, returned, exit, ran, failures>>

EditFinish ==
    /\ pc = "e_finish"
    /\ IF Persists(probed)
       THEN \E o \in SaveOutcomes :
            /\ cfgfile' = save_config(cfgfile, newcfg, o)
            /\ saved' = Append(saved, [rec |-> newcfg, out |-> o])
            /\ failures' = IF o = "ok" THEN failures ELSE failures \cup {"save"}
            /\ returned' = Return(newcfg)
       ELSE /\ returned' = Return(Empty)
            /\ failures' = failures \cup {"probe"}
            /\ UNCHANGED <<cfgfile, saved>>
    /\ pc' = "return"
    /\ UNCHANGED <<envVars, config, branch, cmds, pushVars, result, existing, newcfg,
                   answers, probed, exit, ran>>

-----------------------------------------------------------------------------
Next ==
    \/ MainLoad \/ MainDispatch \/ MainSetup \/ MainEdit \/ MainConfig \/ MainTest
    \/ MainList \/ MainAll \/ MainFiles \/ MainHelp \/ MainReturn \/ MainUncaught
    \/ TestSshConnection
    \/ PushEnter \/ PushEnsure \/ PushFile \/ PushTally
    \/ SetupEnter \/ SetupChoice
    \/ CreateHostname \/ CreatePort \/ CreateRemoteDir \/ CreateAuth \/ CreateKeyPath
    \/ CreateTest \/ CreateFinish
    \/ EditEnter \/ EditHostname \/ EditPort \/ EditRemoteDir \/ EditAuth \/ EditKeyPath
    \/ EditTest \/ EditFinish

Spec == Init /\ [][Next]_vars

-----------------------------------------------------------------------------
(* Properties *)
Last(q) == q[Len(q)]
IsKind(kind) == {i \in 1..Len(cmds) : cmds[i].kind = kind}
Finished == pc \in {"return", "done", "raised"}
PushFinished == "push_files" \in ran /\ Finished
CopiedOk(i) == i <= Len(seen) /\ seen[i].exists /\ ~seen[i].out.raised /\ seen[i].out.rc = 0

(* C1 as stated: push returns true iff every input path exists locally and  *)
(* every corresponding copy invocation reports success.                    *)
PushTrueIffAllCopied ==
    PushFinished => (result = "true" <=> \A i \in 1..Len(files) : CopiedOk(i))

(* C1 as amended: for a non-empty input list, push returns true iff every   *)
(* input path exists locally and its copy invocation was issued and        *)
(* reported success; one missing path or one failed or raising copy        *)
(* forces false whatever the other files do.                               *)
PushTrueIffAllCopiedNonEmpty ==
    (PushFinished /\ files # <<>>) =>
        /\ result = "true" <=> \A i \in 1..Len(files) : CopiedOk(i)
        /\ (\E i \in 1..Len(seen) : ~CopiedOk(i)) => result = "false"

PushMixedBatchWitness ==
    /\ PushFinished /\ Len(files) = 2 /\ Len(seen) = 2
    /\ CopiedOk(1) /\ ~seen[2].exists
    /\ result = "false"

(* C2: push with an empty path list or an empty configuration returns      *)
(* false and starts no child process, neither mkdir nor scp.               *)
PushRejectsImmediately ==
    ("push_files" \in ran /\ (files = <<>> \/ DOMAIN config = {})) =>
        /\ result = "false"
        /\ IsKind("mkdir") = {} /\ IsKind("scp") = {}

PushRejectsEmptyListWitness ==
    /\ PushFinished /\ files = <<>> /\ config = KeyRecord
    /\ result = "false" /\ cmds = <<>>

(* C3: the exit status is 0 when the selected operation succeeds or help   *)
(* is shown and 1 on any failure; the only failure that leaves it at 0 is  *)
(* a malformed configuration load.                                         *)
ExitStatusReflectsFailure ==
    exit.done =>
        /\ exit.code \in {0, 1}
        /\ exit.code = 0 <=> failures \ {"load"} = {}

(* C4: the branch taken is the first of setup, edit, config, test, list,   *)
(* all, files, help that the command line gives, and nothing of a lower    *)
(* one runs.                                                               *)
Precedence == <<"setup", "edit", "config", "test", "list", "all", "files", "help">>
Present(op) == CASE op = "files" -> args.files # <<>>
                 [] op = "help" -> TRUE
                 [] OTHER -> op \in args.flags
Rank(op) == CHOOSE i \in 1..Len(Precedence) : Precedence[i] = op
MayRun(op) == CASE op = "setup" -> {"setup_ssh_config", "edit_ssh_config"}
                [] op = "edit" -> {"edit_ssh_config"}
                [] op = "config" -> {"show_config"}
                [] op = "test" -> {"test_ssh_connection"}
                [] op = "list" -> {"list_remote_files"}
                [] op = "all" -> {"get_all_non_hidden_files", "push_files"}
                [] op = "files" -> {"push_files"}
                [] op = "help" -> {}
MayStart(op) == CASE op \in {"setup", "edit", "test"} -> {"probe"}
                  [] op = "list" -> {"ls"}
                  [] op \in {"all", "files"} -> {"mkdir", "scp"}
                  [] OTHER -> {}
DispatchByPrecedence ==
    (entry = "main" /\ branch # "none") =>
        /\ Present(branch)
        /\ \A i \in 1..Len(Precedence) : Present(Precedence[i]) => Rank(branch) <= i
        /\ ran \subseteq {"main"} \cup MayRun(branch)
        /\ \A i \in 1..Len(cmds) : cmds[i].kind \in MayStart(branch)
        /\ branch \notin {"setup", "edit"} => cfgfile = file0
        /\ (branch = "files" /\ "push_files" \in ran) => files = args.files

DispatchWitness ==
    /\ exit.done /\ {"edit", "list"} \subseteq args.flags
    /\ branch = "edit" /\ "edit_ssh_config" \in ran

(* C5: in the create and the edit flow the record is saved only after a    *)
(* successful probe of that record; when the probe fails the flow returns  *)
(* the empty record and the configuration file is as it was.               *)
ProbeOk(o) == ~o.raised /\ o.rc = 0 /\ \E i \in 1..Len(o.stdout) : o.stdout[i] = Marker
SaveOnlyAfterProbe ==
    /\ saved # <<>> =>
          /\ Len(saved) = 1 /\ probed = "true"
          /\ cmds # <<>> /\ Last(cmds).kind = "probe" /\ ProbeOk(Last(cmds).out)
          /\ Last(cmds).host = saved[1].rec["hostname"]
    /\ saved = <<>> => cfgfile = file0
    /\ (probed = "false" /\ Finished) =>
          /\ returned = Return(Empty)
          /\ saved = <<>>

ProbeFailedWitness ==
    /\ "edit_ssh_config" \in ran /\ probed = "false" /\ pc = "return"
    /\ cmds # <<>> /\ file0 = Stored(KeyRecord)
    /\ newcfg # existing

(* C6 as stated: answering every edit prompt with blank input yields a     *)
(* record, returned and handed to save, equal to the existing record, and  *)
(* the existing record is not changed.                                     *)
AllBlank == \A i \in 1..Len(answers) : answers[i] = <<>>
BlankEditReturned ==
    /\ "edit_ssh_config" \in ran /\ pc \in {"return", "done"}
    /\ returned.has /\ AllBlank
WellFormed(c) ==
    /\ "auth_method" \in DOMAIN c /\ c["auth_method"] \in {"key", "password"}
    /\ c["auth_method"] = "key" => ("key_path" \in DOMAIN c /\ c["key_path"] # <<>>)
PersistedRecordWellFormed ==
    \A i \in 1..Len(saved) :
        ("edit_ssh_config" \in ran => WellFormed(existing)) => WellFormed(saved[i].rec)

(* C8: the probe returns true iff the child process exits with status 0    *)
(* and prints the marker; a raised exception, a record without hostname    *)
(* included, gives false and does not propagate.                           *)
ProbeValue == IF "test_ssh_connection" \in ran THEN result ELSE probed
ProbedRecord == IF "test_ssh_connection" \in ran THEN config ELSE newcfg
ProbeTrueIffMarker ==
    ProbeValue # "none" =>
        /\ ProbeValue \in {"true", "false"}
        /\ ProbeValue = "true" <=>
              /\ cmds # <<>> /\ Last(cmds).kind = "probe"
              /\ ~Last(cmds).out.raised /\ Last(cmds).out.rc = 0
              /\ \E i \in 1..Len(Last(cmds).out.stdout) : Last(cmds).out.stdout[i] = Marker
        /\ "hostname" \notin DOMAIN ProbedRecord => ProbeValue = "false" /\ cmds = <<>>
        /\ "test_ssh_connection" \in ran => pc # "raised"

ProbeNoMarkerWitness ==
    /\ "test_ssh_connection" \in ran /\ result = "false" /\ pc = "return"
    /\ cmds # <<>> /\ ~Last(cmds).out.raised /\ Last(cmds).out.rc = 0
    /\ Last(cmds).out.stdout = <<>>

(* C9: push starts mkdir exactly once and before any scp; when mkdir fails *)
(* or raises push returns false and no scp is started.                     *)
EnsureOnceAndFirst ==
    /\ Cardinality(IsKind("mkdir")) <= 1
    /\ IsKind("scp") # {} => (cmds[1].kind = "mkdir" /\ ~cmds[1].out.raised /\ cmds[1].out.rc = 0)
    /\ ("push_files" \in ran /\ (pc = "loop" \/ tally # <<>>)) => IsKind("mkdir") = {1}
    /\ (IsKind("mkdir") # {} /\ (cmds[1].out.raised \/ cmds[1].out.rc # 0)) =>
          /\ IsKind("scp") = {}
          /\ seen = <<>> /\ tally = <<>>
          /\ result = "false" /\ pc \in {"return", "done"}

EnsureFailedWitness ==
    /\ PushFinished /\ Len(files) = 2 /\ Len(cmds) = 1
    /\ cmds[1].kind = "mkdir" /\ cmds[1].out.raised
    /\ result = "false"

(* C10: after a successful mkdir push starts exactly one scp for each path *)
(* present locally, in input order, and none for a missing path, whatever  *)
(* happened to the earlier paths; success_count never exceeds the number   *)
(* of paths processed and the tally is success_count over the input count. *)
RECURSIVE PresentPaths(_)
PresentPaths(sn) ==
    IF sn = <<>> THEN <<>>
    ELSE PresentPaths(SubSeq(sn, 1, Len(sn) - 1))
            \o (IF Last(sn).exists THEN <<<<Last(sn).path>>>> ELSE <<>>)
ScpArgs == [i \in 1..(Len(cmds) - 1) |-> <<Head(cmds[i + 1].arg)>>]
BatchNeverAborts ==
    ("push_files" \in ran /\ (pc = "loop" \/ tally # <<>>)) =>
        /\ Len(seen) <= Len(files)
        /\ \A i \in 1..Len(seen) : seen[i].path = files[i]
        /\ \A i \in 2..Len(cmds) : cmds[i].kind = "scp"
        /\ ScpArgs = PresentPaths(seen)
        /\ success_count <= Len(seen)
        /\ success_count = Cardinality({i \in 1..Len(seen) : CopiedOk(i)})
        /\ tally # <<>> => (Len(seen) = Len(files) /\ tally = <<success_count, Len(files)>>)

BatchAfterFailureWitness ==
    /\ tally = <<1, 2>> /\ Len(seen) = 2
    /\ seen[1].exists /\ seen[1].out.raised
    /\ CopiedOk(2)
====
